---- MODULE Spec2Model ----
(***************************************************************************)
(* A state-machine model of pyperplan's best-first search                  *)
(* (src/pyperplan/search/a_star.py): the three node orderings, the         *)
(* partial-plan seeder and the main loop of astar_search.                  *)
(*                                                                         *)
(* States of the planning task are the integers of States, operators are   *)
(* records with a name, a cost and an effect (a partial function on        *)
(* States), and the search nodes live in an arena (the sequence nodes)     *)
(* whose entries point at their parent by index.                           *)
(***************************************************************************)
EXTENDS Integers, Sequences, FiniteSets, TLC

\* ------------------------------------------------------------------------
\* Bounds of the model and constants of the program
\* ------------------------------------------------------------------------

\* Largest finite heuristic value drawn for a state.
MaxH == 2

\* The wall clock advances at most this far during one search.
MaxTime == 1

\* float("inf"): larger than every finite g, h and f of the model.
INF == 1000

\* Default weight of weighted_astar_search.
DefaultWeight == 5

\* Marks "operator not applicable" in an operator's effect.
NA == 0 - 1

\* The float nan, the value of 0 * float("inf").
NaN == 0 - 2

\* The states of the task; task.initial_state is InitialState.
States == {0, 1, 2}
InitialState == 0

\* ------------------------------------------------------------------------
\* Arithmetic with float("inf")
\* ------------------------------------------------------------------------

\* a + b on non-negative floats, float("inf") and nan.
Plus(a, b) ==
  IF a = NaN \/ b = NaN THEN NaN
  ELSE IF a >= INF \/ b >= INF THEN INF
  ELSE a + b

\* a * b on non-negative floats, float("inf") and nan: 0 * inf is nan.
Times(a, b) ==
  IF a = NaN \/ b = NaN THEN NaN
  ELSE IF (a = 0 /\ b >= INF) \/ (a >= INF /\ b = 0) THEN NaN
  ELSE IF a >= INF \/ b >= INF THEN INF
  ELSE a * b

\* a < b and a == b on floats: every comparison with nan is false.
FloatLess(a, b) == a /= NaN /\ b /= NaN /\ a < b
FloatEq(a, b) == a /= NaN /\ b /= NaN /\ a = b

\* ------------------------------------------------------------------------
\* The task collaborator: operators, successor function, goal test
\* ------------------------------------------------------------------------

\* The operators a task is drawn from, in the order task.operators lists them.
\* inc is applicable in S0 only, jump in S0 only, step in S1 only, back in
\* S2 and S1.
Catalog ==
  << [name |-> "inc",  cost |-> 1,  eff |-> (0 :> 1  @@ 1 :> NA @@ 2 :> NA)],
     [name |-> "jump", cost |-> 10, eff |-> (0 :> 2  @@ 1 :> NA @@ 2 :> NA)],
     [name |-> "step", cost |-> 1,  eff |-> (0 :> NA @@ 1 :> 2  @@ 2 :> NA)],
     [name |-> "back", cost |-> 1,  eff |-> (0 :> NA @@ 1 :> 0  @@ 2 :> 1)] >>

\* Operator names a partial plan may mention; "nope" names no operator.
OpNames == {"inc", "jump", "step", "back", "nope"}

\* The operators of Catalog at the positions of I, in Catalog order.
RECURSIVE SelectOps(_, _)
SelectOps(I, k) ==
  IF k > Len(Catalog) THEN << >>
  ELSE IF k \in I THEN << Catalog[k] >> \o SelectOps(I, k + 1)
       ELSE SelectOps(I, k + 1)

\* op.applicable(state)
applicable(op, state) == op.eff[state] /= NA

\* op.apply(state)
apply(op, state) == op.eff[state]

\* task.goal_reached(state)
goal_reached(t, state) == state \in t.goal

\* task.get_successor_states(state): the pairs (operator, successor) of the
\* applicable operators, in the order of task.operators.
RECURSIVE SuccessorsFrom(_, _, _)
SuccessorsFrom(ops, state, k) ==
  IF k > Len(ops) THEN << >>
  ELSE IF applicable(ops[k], state)
       THEN << [op |-> ops[k], state |-> apply(ops[k], state)] >>
            \o SuccessorsFrom(ops, state, k + 1)
       ELSE SuccessorsFrom(ops, state, k + 1)

get_successor_states(t, state) == SuccessorsFrom(t.operators, state, 1)

\* ------------------------------------------------------------------------
\* The node factory (searchspace)
\* ------------------------------------------------------------------------

\* searchspace.make_root_node(state)
make_root_node(state) ==
  [state |-> state, parent |-> 0, action |-> "", g |-> 0]

\* searchspace.make_child_node(parent, op, state); parent is an arena index.
make_child_node(arena, parent, op, state) ==
  [state |-> state, parent |-> parent, action |-> op.name,
   g |-> arena[parent].g + op.cost]

\* node.extract_solution(): the actions on the parent chain, root first.
RECURSIVE extract_solution(_, _)
extract_solution(arena, n) ==
  IF arena[n].parent = 0 THEN << >>
  ELSE Append(extract_solution(arena, arena[n].parent), arena[n].action)

\* ------------------------------------------------------------------------
\* Node ordering strategies: the entries of the priority queue
\* ------------------------------------------------------------------------

\* The A* key without the path cost.
ordered_node_astar_without_g(g, h, node_tiebreaker, n) ==
  [f |-> h, h |-> h, tie |-> node_tiebreaker, node |-> n]

\* ordered_node_astar(node, h, node_tiebreaker), with g = node.g
ordered_node_astar(g, h, node_tiebreaker, n) ==
  [f |-> Plus(g, h), h |-> h, tie |-> node_tiebreaker, node |-> n]

\* ordered_node_weighted_astar(weight)(node, h, node_tiebreaker)
ordered_node_weighted_astar(weight, g, h, node_tiebreaker, n) ==
  [f |-> Plus(g, Times(weight, h)), h |-> h, tie |-> node_tiebreaker, node |-> n]

\* ordered_node_greedy_best_first(node, h, node_tiebreaker)
ordered_node_greedy_best_first(g, h, node_tiebreaker, n) ==
  [f |-> h, h |-> h, tie |-> node_tiebreaker, node |-> n]

\* The weights a caller passes to weighted_astar_search.
Weights == {0, DefaultWeight}

\* The pluggable make_open_entry parameter: a tag and, for weighted A*, the
\* weight bound by ordered_node_weighted_astar(weight).
Strategies ==
  { [kind |-> "astar", weight |-> 1], [kind |-> "greedy", weight |-> 0] }
  \cup { [kind |-> "weighted", weight |-> w] : w \in Weights }

MakeEntry(strategy, g, h, node_tiebreaker, n) ==
  CASE strategy.kind = "astar" -> ordered_node_astar(g, h, node_tiebreaker, n)
    [] strategy.kind = "weighted" ->
         ordered_node_weighted_astar(strategy.weight, g, h, node_tiebreaker, n)
    [] strategy.kind = "greedy" ->
         ordered_node_greedy_best_first(g, h, node_tiebreaker, n)

\* A comparison that prefers the entry inserted last among equal keys.
EntryLessNewestFirst(a, b) ==
  IF ~FloatEq(a.f, b.f) THEN FloatLess(a.f, b.f)
  ELSE IF ~FloatEq(a.h, b.h) THEN FloatLess(a.h, b.h)
  ELSE a.tie > b.tie

\* Python's comparison a < b of two queue entries (f, h, tiebreaker, node):
\* the first components that are not equal decide. The tiebreakers of two
\* entries differ, so the node is never compared.
EntryLess(a, b) ==
  IF ~FloatEq(a.f, b.f) THEN FloatLess(a.f, b.f)
  ELSE IF ~FloatEq(a.h, b.h) THEN FloatLess(a.h, b.h)
  ELSE a.tie < b.tie

\* heapq's _siftdown(heap, startpos, pos) for the item newitem lifted from
\* position pos: parents that newitem is less than move down. Positions
\* count from 1, the parent of pos is pos \div 2.
RECURSIVE siftdown(_, _, _, _)
siftdown(heap, startpos, pos, newitem) ==
  IF pos > startpos /\ EntryLess(newitem, heap[pos \div 2])
  THEN siftdown([heap EXCEPT ![pos] = heap[pos \div 2]], startpos, pos \div 2, newitem)
  ELSE [heap EXCEPT ![pos] = newitem]

\* The loop of heapq's _siftup: the smaller child moves up until a leaf is
\* reached; yields the heap and the position of the hole.
RECURSIVE BubbleUp(_, _)
BubbleUp(heap, pos) ==
  LET childpos == 2 * pos
      rightpos == childpos + 1
      c == IF rightpos <= Len(heap) /\ ~EntryLess(heap[childpos], heap[rightpos])
           THEN rightpos ELSE childpos
  IN IF childpos <= Len(heap)
     THEN BubbleUp([heap EXCEPT ![pos] = heap[c]], c)
     ELSE [heap |-> heap, pos |-> pos]

\* heapq's _siftup(heap, pos)
siftup(heap, pos) ==
  LET b == BubbleUp(heap, pos)
  IN siftdown(b.heap, pos, b.pos, heap[pos])

\* heapq.heappush(open, entry)
heappush(heap, entry) ==
  siftdown(Append(heap, entry), 1, Len(heap) + 1, entry)

\* heapq.heappop(open) on a non-empty heap: the item returned and the heap
\* left.
heappop(heap) ==
  LET lastelt == heap[Len(heap)]
      rest == SubSeq(heap, 1, Len(heap) - 1)
  IN IF rest /= << >>
     THEN [item |-> heap[1], heap |-> siftup([rest EXCEPT ![1] = lastelt], 1)]
     ELSE [item |-> lastelt, heap |-> rest]

\* The entries held by a heap.
Entries(heap) == {heap[i] : i \in 1..Len(heap)}

\* ------------------------------------------------------------------------
\* Cost table and admission
\* ------------------------------------------------------------------------

\* state_cost.get(succ_state, float("inf"))
CostGet(table, state) == IF state \in DOMAIN table THEN table[state] ELSE INF

\* A cost table that keeps the first cost recorded for a state.
CostPutIfAbsent(table, state, g) ==
  [s \in DOMAIN table \cup {state} |-> IF s \in DOMAIN table THEN table[s] ELSE g]

\* state_cost[succ_state] = g
CostPut(table, state, g) ==
  [s \in DOMAIN table \cup {state} |-> IF s = state THEN g ELSE table[s]]

\* Admission of unseen states only (a closed list without re-opening).
AdmitsUnseenOnly(g, old_succ_g) == old_succ_g = INF

\* Admission of a node that is as expensive as the recorded one.
AdmitsOrEqual(g, old_succ_g) == g <= old_succ_g

\* The admission test: succ_node.g < old_succ_g
Admits(g, old_succ_g) == g < old_succ_g

\* A liveness test that lets every popped node through.
IsLiveAlways(table_g, g) == TRUE

\* A liveness test that takes a dominated node for live.
IsLiveOrStale(table_g, g) == table_g <= g

\* The liveness test on pop: state_cost[pop_state] == pop_node.g
IsLive(table_g, g) == table_g = g

\* A search that takes no heuristic value for a dead end.
IsDeadEndNever(h) == FALSE

\* The dead-end test: h == float("inf")
IsDeadEnd(h) == h = INF

\* A timeout test that needs the limit to be exceeded.
TimedOutAfter(now, limit) == now > limit

\* The timeout test: time.time() - start_time >= timeout
TimedOutAt(now, limit) == now >= limit

\* ------------------------------------------------------------------------
\* Guidance-mode selectors and relaxed plans
\* ------------------------------------------------------------------------

\* The selectors a caller may pass as partial_plan_guidance_method.
Methods ==
  {"init-queue", "init-queue-break", "init-queue-continue", "edit-distance",
   "none", "my-init-queue"}

\* The two selectors the interface enumerates.
RecognizedMethods == {"init-queue-break", "init-queue-continue"}

\* Python's "sub in s" on strings: sub occurs in s at some position.
Contains(sub, s) ==
  \E i \in 1..(Len(s) - Len(sub) + 1) : SubSeq(s, i, i + Len(sub) - 1) = sub

\* "init-queue" in partial_plan_guidance_method
ContainsInitQueue(method) == Contains("init-queue", method)

\* partial_plan_guidance_method != "edit-distance"
NotDeprecated(method) == method /= "edit-distance"

\* The value None of partial_plans and the value None of rplan.
NoPlans == [given |-> FALSE, plans |-> << >>]
NoRPlan == [none |-> TRUE, ops |-> {}]
RPlanOf(names) == [none |-> FALSE, ops |-> names]

\* A truth value that takes every collection, the empty one too, for true.
TruthyUnlessNone(rp) == ~rp.none

\* Python's truth value of rplan: None and the empty collection are false.
Truthy(rp) == ~rp.none /\ rp.ops /= {}

\* A relaxed-plan criterion that filters nothing.
FilteredNever(use_rp, rp, name) == FALSE

\* The filter of the relaxed-plan criterion:
\* use_relaxed_plan and rplan and not op.name in rplan
Filtered(use_rp, rp, name) == use_rp /\ Truthy(rp) /\ name \notin rp.ops

\* op_map = {op.name: op for op in task.operators}: the position of the
\* last operator called name, 0 when op_map[name] raises KeyError.
OpMap(ops, name) ==
  LET I == {k \in 1..Len(ops) : ops[k].name = name}
  IN IF I = {} THEN 0 ELSE CHOOSE k \in I : \A j \in I : j <= k

\* A seeder with the two recovery policies exchanged.
OnMissSwapped(method) ==
  IF method = "init-queue-continue" THEN "break"
  ELSE IF method = "init-queue-break" THEN "continue"
  ELSE "raise"

\* What the seeder does on a missing or inapplicable operator:
\* "continue", "break", or the failing assert.
OnMiss(method) ==
  IF method = "init-queue-continue" THEN "continue"
  ELSE IF method = "init-queue-break" THEN "break"
  ELSE "raise"

\* ------------------------------------------------------------------------
\* State
\* ------------------------------------------------------------------------

VARIABLES
  task,                \* [operators, goal, initial_state]
  heuristic,           \* [h: state -> value, calc_h_with_plan: state -> (rh, rplan)]
  timeout,             \* seconds
  make_open_entry,     \* the ordering strategy
  use_relaxed_plan,
  partial_plans,       \* NoPlans or [given |-> TRUE, plans |-> list of lists]
  partial_plan_guidance_method,
  pc,                  \* position in astar_search, or its outcome
  elapsed,             \* time.time() - start_time
  metrics,             \* [nodes_expanded, nodes_created]
  open,                \* the priority queue
  state_cost,          \* the cost table
  node_tiebreaker,
  nodes,               \* the arena of search nodes; the root is nodes[1]
  node,                \* the seeder's replay cursor (an arena index)
  plan_i,              \* the seeder's position in partial_plans
  op_i,                \* the seeder's position in the current partial plan
  besth,
  counter,
  expansions,
  pop_node,            \* the node under expansion (an arena index)
  rh,                  \* the relaxed heuristic value of the node under expansion
  rplan,               \* the relaxed plan of the node under expansion
  succs,               \* task.get_successor_states(pop_state)
  succ_i,              \* position in succs
  result,              \* [has_plan, plan]: the returned plan or None
  pushed,              \* history: every heappush, in order
  popped,              \* history: every heappop, in order
  h_calls              \* history: number of calls of heuristic(node)

params ==
  << task, heuristic, timeout, make_open_entry, use_relaxed_plan,
     partial_plans, partial_plan_guidance_method >>

seeder == << node, plan_i, op_i >>

expansion == << pop_node, rh, rplan, succs, succ_i >>

logvars == << besth, counter, expansions >>

vars ==
  << task, heuristic, timeout, make_open_entry, use_relaxed_plan,
     partial_plans, partial_plan_guidance_method, pc, elapsed, metrics, open,
     state_cost, node_tiebreaker, nodes, node, plan_i, op_i, besth, counter,
     expansions, pop_node, rh, rplan, succs, succ_i, result, pushed, popped,
     h_calls >>

Terminal == {"Goal", "Exhausted", "TimedOut", "Raised"}

NoResult == [has_plan |-> FALSE, plan |-> << >>, error |-> ""]

\* The call ends with an exception instead of a result.
Raise(error) == [has_plan |-> FALSE, plan |-> << >>, error |-> error]

\* ------------------------------------------------------------------------
\* The inputs of a call
\* ------------------------------------------------------------------------

HValues == (0..MaxH) \cup {INF}

\* The heuristic values of the calls that seed or use relaxed plans.
CoarseHValues == {0, 1, INF}

Goals == { {}, {0}, {2} }

Tasks ==
  { [operators |-> SelectOps(I, 1), goal |-> G, initial_state |-> InitialState] :
      I \in SUBSET (1..Len(Catalog)), G \in Goals }

\* What heuristic.calc_h_with_plan returns as the relaxed plan of a state.
\* The pair (rh, rplan) that heuristic.calc_h_with_plan returns.
WithPlan(value, plan) == [rh |-> value, rplan |-> plan]

\* What heuristic.calc_h_with_plan returns for a state: the relaxed value
\* with the relaxed plan. An infinite value comes without a plan or, from a
\* heuristic that reports the operators it got to, with a set of names.
RPlanChoices ==
  { WithPlan(INF, NoRPlan), WithPlan(0, RPlanOf({})),
    WithPlan(2, RPlanOf({"inc", "step"})), WithPlan(1, RPlanOf({"jump"})),
    WithPlan(INF, RPlanOf({"inc"})) }

RelaxedPlans ==
  { [s \in States |-> r] : r \in RPlanChoices }
  \cup { (0 :> WithPlan(2, RPlanOf({"inc"})) @@ 1 :> WithPlan(INF, NoRPlan)
            @@ 2 :> WithPlan(1, RPlanOf({"back"}))) }

NoRelaxedPlans == [s \in States |-> WithPlan(INF, NoRPlan)]

Heuristics(values, rplans) ==
  { [h |-> hf, calc_h_with_plan |-> rp] : hf \in [States -> values], rp \in rplans }

Timeouts == {0, 1}

\* The partial plans a seeding call supplies.
Seeds ==
  { [given |-> TRUE, plans |-> << <<"inc", "step">> >>],
    [given |-> TRUE, plans |-> << <<"nope", "inc">>, <<"jump", "back", "step">> >>],
    [given |-> TRUE, plans |-> << <<"inc">>, <<"inc", "step", "step">> >>] }

Call(t, hr, to, st, urp, pp, m) ==
  [task |-> t, heuristic |-> hr, timeout |-> to, make_open_entry |-> st,
   use_relaxed_plan |-> urp, partial_plans |-> pp,
   partial_plan_guidance_method |-> m]

\* Calls without partial plans and without relaxed-plan guidance.
PlainCalls ==
  { Call(t, hr, to, st, FALSE, NoPlans, "init-queue") :
      t \in Tasks, hr \in Heuristics(HValues, {NoRelaxedPlans}),
      to \in Timeouts, st \in Strategies }

\* Calls with each selector, with and without partial plans.
SelectorCalls ==
  { Call(t, hr, 1, st, FALSE, pp, m) :
      t \in Tasks, hr \in Heuristics({0, 1}, {NoRelaxedPlans}),
      st \in {s \in Strategies : s.kind = "astar"},
      pp \in {NoPlans} \cup Seeds, m \in Methods }

\* Calls that supply partial plans under a selector that seeds.
SeededCalls ==
  { Call(t, hr, to, st, FALSE, pp, m) :
      t \in Tasks, hr \in Heuristics(CoarseHValues, {NoRelaxedPlans}),
      to \in Timeouts, st \in Strategies, pp \in Seeds,
      m \in {m \in Methods : ContainsInitQueue(m)} }

\* Calls with relaxed-plan guidance, with and without partial plans.
RelaxedCalls ==
  { Call(t, hr, 1, st, TRUE, pp, "init-queue-continue") :
      t \in Tasks, hr \in Heuristics(CoarseHValues, RelaxedPlans),
      st \in Strategies,
      pp \in {NoPlans} \cup {s \in Seeds : Len(s.plans) = 1} }

\* ------------------------------------------------------------------------
\* Initial state: the call is made, nothing of its body has run
\* ------------------------------------------------------------------------

\* The call c is made.
Called(c) ==
  /\ task = c.task
  /\ heuristic = c.heuristic
  /\ timeout = c.timeout
  /\ make_open_entry = c.make_open_entry
  /\ use_relaxed_plan = c.use_relaxed_plan
  /\ partial_plans = c.partial_plans
  /\ partial_plan_guidance_method = c.partial_plan_guidance_method

Init ==
  /\ \/ \E c \in PlainCalls : Called(c)
     \/ \E c \in SelectorCalls : Called(c)
     \/ \E c \in SeededCalls : Called(c)
     \/ \E c \in RelaxedCalls : Called(c)
  /\ pc = "start"
  /\ elapsed = 0
  /\ metrics = [nodes_expanded |-> 0, nodes_created |-> 0]
  /\ open = << >>
  /\ state_cost = << >>
  /\ node_tiebreaker = 0
  /\ nodes = << >>
  /\ node = 0
  /\ plan_i = 0
  /\ op_i = 0
  /\ besth = 0
  /\ counter = 0
  /\ expansions = 0
  /\ pop_node = 0
  /\ rh = NA
  /\ rplan = NoRPlan
  /\ succs = << >>
  /\ succ_i = 0
  /\ result = NoResult
  /\ pushed = << >>
  /\ popped = << >>
  /\ h_calls = 0

\* ------------------------------------------------------------------------
\* Steps of astar_search
\* ------------------------------------------------------------------------

\* A successor attached to the root instead of the node under expansion.
ChildOfRoot(arena, popped_idx, op, succ_state) ==
  make_child_node(arena, 1, op, succ_state)

\* succ_node = searchspace.make_child_node(pop_node, op, succ_state)
ChildOfPopped(arena, popped_idx, op, succ_state) ==
  make_child_node(arena, popped_idx, op, succ_state)

\* A replay cursor that follows admitted nodes only.
AdvanceCursorIfAdmitted(cursor, succ_idx, admitted) ==
  IF admitted THEN succ_idx ELSE cursor

\* "node = succ_node" at the end of a replay step: the cursor moves to the
\* new node, admitted or not.
AdvanceCursor(cursor, succ_idx, admitted) == succ_idx

\* An admission block that leaves nodes_created alone.
AdmitBlockUncounted(nd, idx, h) ==
  LET old_succ_g == CostGet(state_cost, nd.state)
      entry == MakeEntry(make_open_entry, nd.g, h, node_tiebreaker + 1, idx)
  IN IF Admits(nd.g, old_succ_g)
     THEN /\ node_tiebreaker' = node_tiebreaker + 1
          /\ open' = heappush(open, entry)
          /\ metrics' = metrics
          /\ state_cost' = CostPut(state_cost, nd.state, nd.g)
          /\ pushed' = Append(pushed, [entry |-> entry, state |-> nd.state,
                                       g |-> nd.g, old |-> old_succ_g])
     ELSE UNCHANGED << node_tiebreaker, open, metrics, state_cost, pushed >>

\* The admission block shared by the seeder and the main loop: the node
\* nodes'[idx] = nd with heuristic value h is pushed iff its g is strictly
\* smaller than the cost recorded for its state.
AdmitBlock(nd, idx, h) ==
  LET old_succ_g == CostGet(state_cost, nd.state)
      entry == MakeEntry(make_open_entry, nd.g, h, node_tiebreaker + 1, idx)
  IN IF Admits(nd.g, old_succ_g)
     THEN /\ node_tiebreaker' = node_tiebreaker + 1
          /\ open' = heappush(open, entry)
          /\ metrics' = [metrics EXCEPT !.nodes_created = @ + 1]
          /\ state_cost' = CostPut(state_cost, nd.state, nd.g)
          /\ pushed' = Append(pushed, [entry |-> entry, state |-> nd.state,
                                       g |-> nd.g, old |-> old_succ_g])
     ELSE UNCHANGED << node_tiebreaker, open, metrics, state_cost, pushed >>

\* The metrics, the cost table, the root and its queue entry are set up.
Start ==
  /\ pc = "start"
  /\ LET root == make_root_node(task.initial_state)
         init_h == heuristic.h[root.state]
         entry == MakeEntry(make_open_entry, root.g, init_h, 0, 1)
     IN /\ metrics' = [nodes_expanded |-> 0, nodes_created |-> 1]
        /\ state_cost' = CostPut(<< >>, task.initial_state, 0)
        /\ node_tiebreaker' = 0
        /\ nodes' = << root >>
        /\ open' = heappush(<< >>, entry)
        /\ besth' = init_h
        /\ pushed' = << [entry |-> entry, state |-> root.state, g |-> 0,
                         old |-> INF] >>
        /\ h_calls' = h_calls + 1
  /\ pc' = "check"
  /\ UNCHANGED << params, elapsed, seeder, counter, expansions, expansion,
                  result, popped >>

\* The assert on the deprecated selector, and the decision whether to seed.
CheckMethod ==
  /\ pc = "check"
  /\ IF ~NotDeprecated(partial_plan_guidance_method)
     THEN /\ pc' = "Raised"
          /\ result' = Raise("DEPRECATED")
          /\ UNCHANGED seeder
     ELSE IF partial_plans.given /\ ContainsInitQueue(partial_plan_guidance_method)
          THEN /\ pc' = "seed_plan"
               /\ plan_i' = 1
               /\ UNCHANGED << node, op_i, result >>
          ELSE /\ pc' = "loop"
               /\ UNCHANGED << seeder, result >>
  /\ UNCHANGED << params, elapsed, metrics, open, state_cost, node_tiebreaker,
                  nodes, logvars, expansion, pushed, popped, h_calls >>

\* for partial_plan in partial_plans: node = root
SeedPlan ==
  /\ pc = "seed_plan"
  /\ IF plan_i <= Len(partial_plans.plans)
     THEN pc' = "seed_op" /\ node' = 1 /\ op_i' = 1 /\ UNCHANGED plan_i
     ELSE pc' = "loop" /\ UNCHANGED seeder
  /\ UNCHANGED << params, elapsed, metrics, open, state_cost, node_tiebreaker,
                  nodes, logvars, expansion, result, pushed, popped, h_calls >>

\* One pass through the body of "for op_name in partial_plan".
SeedOp ==
  /\ pc = "seed_op"
  /\ LET partial_plan == partial_plans.plans[plan_i]
         NextPlan == /\ pc' = "seed_plan"
                     /\ plan_i' = plan_i + 1
                     /\ UNCHANGED << node, op_i, result >>
         Miss == CASE OnMiss(partial_plan_guidance_method) = "continue" ->
                        /\ pc' = "seed_op"
                        /\ op_i' = op_i + 1
                        /\ UNCHANGED << node, plan_i, result >>
                   [] OnMiss(partial_plan_guidance_method) = "break" -> NextPlan
                   [] OTHER -> /\ pc' = "Raised"
                               /\ result' = Raise("AssertionError")
                               /\ UNCHANGED seeder
         Frame == UNCHANGED << metrics, open, state_cost, node_tiebreaker,
                               nodes, pushed, h_calls >>
     IN IF op_i > Len(partial_plan)
        THEN NextPlan /\ Frame
        ELSE LET k == OpMap(task.operators, partial_plan[op_i])
             IN IF k = 0
                THEN Miss /\ Frame
                ELSE LET op == task.operators[k]
                     IN IF ~applicable(op, nodes[node].state)
                        THEN Miss /\ Frame
                        ELSE LET succ_state == apply(op, nodes[node].state)
                                 succ_node == make_child_node(nodes, node, op, succ_state)
                                 h == heuristic.h[succ_state]
                             IN /\ nodes' = Append(nodes, succ_node)
                                /\ h_calls' = h_calls + 1
                                /\ IF IsDeadEnd(h)
                                   THEN /\ NextPlan
                                        /\ UNCHANGED << metrics, open, state_cost,
                                                        node_tiebreaker, pushed >>
                                   ELSE /\ AdmitBlock(succ_node, Len(nodes) + 1, h)
                                        /\ node' = AdvanceCursor(node, Len(nodes) + 1,
                                                     Admits(succ_node.g,
                                                            CostGet(state_cost, succ_state)))
                                        /\ op_i' = op_i + 1
                                        /\ pc' = "seed_op"
                                        /\ UNCHANGED << plan_i, result >>
  /\ UNCHANGED << params, elapsed, logvars, expansion, popped >>

\* The head of "while open": the loop test, the timeout poll, the pop, the
\* liveness test and the goal test.
Loop ==
  /\ pc = "loop"
  /\ IF open = << >>
     THEN /\ pc' = "Exhausted"
          /\ result' = NoResult
          /\ UNCHANGED << metrics, open, logvars, expansion, popped >>
     ELSE IF TimedOutAt(elapsed, timeout)
     THEN /\ pc' = "TimedOut"
          /\ result' = NoResult
          /\ UNCHANGED << metrics, open, logvars, expansion, popped >>
     ELSE LET e == heappop(open).item
              pop_state == nodes[e.node].state
          IN /\ open' = heappop(open).heap
             /\ besth' = IF e.h < besth THEN e.h ELSE besth
             /\ IF pop_state \notin DOMAIN state_cost
                THEN \* state_cost[pop_state] raises KeyError
                     /\ pc' = "Raised"
                     /\ result' = Raise("KeyError")
                     /\ popped' = Append(popped, [entry |-> e, live |-> FALSE])
                     /\ UNCHANGED << metrics, counter, expansions, expansion >>
                ELSE IF IsLive(state_cost[pop_state], nodes[e.node].g)
                THEN /\ expansions' = expansions + 1
                     /\ metrics' = [metrics EXCEPT !.nodes_expanded = @ + 1]
                     /\ popped' = Append(popped, [entry |-> e, live |-> TRUE])
                     /\ pop_node' = e.node
                     /\ IF goal_reached(task, pop_state)
                        THEN /\ pc' = "Goal"
                             /\ result' = [has_plan |-> TRUE,
                                           plan |-> extract_solution(nodes, e.node),
                                           error |-> ""]
                             /\ UNCHANGED << counter, rh, rplan, succs, succ_i >>
                        ELSE /\ pc' = "succ"
                             /\ rh' = IF use_relaxed_plan
                                      THEN heuristic.calc_h_with_plan[pop_state].rh
                                      ELSE rh
                             /\ rplan' = IF use_relaxed_plan
                                         THEN heuristic.calc_h_with_plan[pop_state].rplan
                                         ELSE NoRPlan
                             /\ succs' = get_successor_states(task, pop_state)
                             /\ succ_i' = 1
                             /\ UNCHANGED << counter, result >>
                ELSE /\ counter' = counter + 1
                     /\ pc' = "loop"
                     /\ popped' = Append(popped, [entry |-> e, live |-> FALSE])
                     /\ UNCHANGED << metrics, expansions, expansion, result >>
  /\ UNCHANGED << params, elapsed, state_cost, node_tiebreaker, nodes, seeder,
                  pushed, h_calls >>

\* One pass through the body of "for op, succ_state in ...", or the end of
\* the iteration when the successors are used up.
Succ ==
  /\ pc = "succ"
  /\ IF succ_i > Len(succs)
     THEN /\ counter' = counter + 1
          /\ pc' = "loop"
          /\ UNCHANGED << metrics, open, state_cost, node_tiebreaker, nodes,
                          succ_i, pushed, h_calls >>
     ELSE LET op == succs[succ_i].op
              succ_state == succs[succ_i].state
              succ_node == ChildOfPopped(nodes, pop_node, op, succ_state)
              h == heuristic.h[succ_state]
          IN /\ pc' = "succ"
             /\ succ_i' = succ_i + 1
             /\ UNCHANGED counter
             /\ IF Filtered(use_relaxed_plan, rplan, op.name)
                THEN UNCHANGED << metrics, open, state_cost, node_tiebreaker,
                                  nodes, pushed, h_calls >>
                ELSE /\ nodes' = Append(nodes, succ_node)
                     /\ h_calls' = h_calls + 1
                     /\ IF IsDeadEnd(h)
                        THEN UNCHANGED << metrics, open, state_cost,
                                          node_tiebreaker, pushed >>
                        ELSE AdmitBlock(succ_node, Len(nodes) + 1, h)
  /\ UNCHANGED << params, elapsed, seeder, besth, expansions, pop_node, rh, rplan,
                  succs, result, popped >>

\* Time passes. The clock is read only by the poll at the head of the loop.
Tick ==
  /\ pc = "loop"
  /\ elapsed < MaxTime
  /\ elapsed' = elapsed + 1
  /\ UNCHANGED << params, pc, metrics, open, state_cost, node_tiebreaker,
                  nodes, seeder, logvars, expansion, result, pushed, popped,
                  h_calls >>

Next == Start \/ CheckMethod \/ SeedPlan \/ SeedOp \/ Loop \/ Succ \/ Tick

Spec == Init /\ [][Next]_vars

\* The steps of the call itself. astar_search is one sequential call: as long
\* as it has not returned or raised, it takes its next step. The clock is
\* the environment's and need not advance.
Progress == Start \/ CheckMethod \/ SeedPlan \/ SeedOp \/ Loop \/ Succ

FairSpec == Spec /\ WF_vars(Progress)

\* ------------------------------------------------------------------------
\* Reference notions the properties are stated with
\* ------------------------------------------------------------------------

Min2(a, b) == IF a <= b THEN a ELSE b

\* The least element of a non-empty set of numbers.
MinOf(S) == CHOOSE x \in S : \A y \in S : x <= y

\* The state reached by replaying the operator names of plan from state, from
\* position i on; NA when a name is unknown or its operator inapplicable.
RECURSIVE Replay(_, _, _, _)
Replay(ops, plan, i, state) ==
  IF i > Len(plan) THEN state
  ELSE LET I == {k \in 1..Len(ops) : ops[k].name = plan[i]}
       IN IF I = {} THEN NA
          ELSE LET op == ops[CHOOSE k \in I : TRUE]
               IN IF op.eff[state] = NA THEN NA
                  ELSE Replay(ops, plan, i + 1, op.eff[state])

\* The summed cost of the operators named by plan.
RECURSIVE PlanCost(_, _, _)
PlanCost(ops, plan, i) ==
  IF i > Len(plan) THEN 0
  ELSE LET k == CHOOSE j \in 1..Len(ops) : ops[j].name = plan[i]
       IN ops[k].cost + PlanCost(ops, plan, i + 1)

\* One round of relaxation of the distances D from a fixed source.
RelaxOnce(ops, D) ==
  [s \in States |->
     LET In == { Plus(D[e[1]], ops[e[2]].cost) :
                   e \in { q \in States \X (1..Len(ops)) :
                             D[q[1]] < INF /\ ops[q[2]].eff[q[1]] = s } }
     IN IF In = {} THEN D[s] ELSE Min2(D[s], MinOf(In))]

RECURSIVE RelaxN(_, _, _)
RelaxN(ops, D, n) == IF n = 0 THEN D ELSE RelaxN(ops, RelaxOnce(ops, D), n - 1)

\* The cheapest cost of a path from state `from` to each state (INF: none).
Distances(t, from) ==
  RelaxN(t.operators, [s \in States |-> IF s = from THEN 0 ELSE INF],
         Cardinality(States))

\* The states reachable from the states of R in at most n steps.
RECURSIVE ReachN(_, _, _)
ReachN(ops, R, n) ==
  IF n = 0 THEN R
  ELSE ReachN(ops,
              R \cup { ops[e[2]].eff[e[1]] :
                         e \in { q \in R \X (1..Len(ops)) :
                                   ops[q[2]].eff[q[1]] /= NA } },
              n - 1)

\* The states reachable from the initial state.
Reachable(t) == ReachN(t.operators, {t.initial_state}, Cardinality(States))

\* The true cost of the cheapest path from state s to a goal state.
TrueCost(t, s) ==
  LET D == Distances(t, s)
  IN IF t.goal = {} THEN INF ELSE MinOf({D[gs] : gs \in t.goal})

\* h never overestimates the true remaining cost.
Admissible(t, h) == \A s \in States : h[s] <= TrueCost(t, s)

\* h is 0 on goals and obeys the triangle inequality along every operator.
Consistent(t, h) ==
  /\ \A s \in t.goal : h[s] = 0
  /\ \A s \in States : \A k \in 1..Len(t.operators) :
       LET op == t.operators[k]
       IN op.eff[s] /= NA => h[s] <= Plus(op.cost, h[op.eff[s]])

\* The states expanded so far, and the popped entries that were expanded.
LivePops == {i \in 1..Len(popped) : popped[i].live}
ExpandedStates == {nodes[popped[i].entry.node].state : i \in LivePops}

\* The seeder runs in this call.
Seeding == partial_plans.given /\ ContainsInitQueue(partial_plan_guidance_method)

\* ------------------------------------------------------------------------
\* C1: soundness
\* ------------------------------------------------------------------------

\* C1: whenever a plan is returned, whatever the ordering strategy, the
\* partial plans and use_relaxed_plan, replaying its operators from
\* task.initial_state finds every operator applicable and ends in a state
\* for which task.goal_reached holds.
C1_Soundness ==
  pc = "Goal" =>
    /\ result.has_plan
    /\ LET final == Replay(task.operators, result.plan, 1, task.initial_state)
       IN final /= NA /\ goal_reached(task, final)

\* A two-step plan is returned by a seeded greedy search.
C1_Witness ==
  /\ pc = "Goal"
  /\ Len(result.plan) = 2
  /\ Seeding
  /\ make_open_entry.kind = "greedy"

\* ------------------------------------------------------------------------
\* C2: optimality of plain A*
\* ------------------------------------------------------------------------

\* C2: with the plain A* ordering, an admissible and consistent heuristic and
\* no relaxed-plan guidance, the g of the returned goal node (which is the
\* cost of the returned plan) is the true shortest-path cost from the
\* initial state to a goal, also when the seeder pre-populated the queue.
C2_Optimality ==
  ( /\ pc = "Goal"
    /\ make_open_entry.kind = "astar"
    /\ ~use_relaxed_plan
    /\ Admissible(task, heuristic.h)
    /\ Consistent(task, heuristic.h) )
  => /\ nodes[pop_node].g = TrueCost(task, task.initial_state)
     /\ PlanCost(task.operators, result.plan, 1) = nodes[pop_node].g

\* A seeded A* search returns the cheap plan although the seeder had queued
\* the goal state at a higher cost.
C2_Witness ==
  /\ pc = "Goal"
  /\ make_open_entry.kind = "astar"
  /\ ~use_relaxed_plan
  /\ Admissible(task, heuristic.h)
  /\ Consistent(task, heuristic.h)
  /\ Seeding
  /\ nodes[pop_node].g = 2
  /\ \E i \in 1..Len(pushed) :
       pushed[i].state = nodes[pop_node].state /\ pushed[i].g > 2

\* ------------------------------------------------------------------------
\* C3: timeout 0
\* ------------------------------------------------------------------------

\* The call returned (it did not raise).
Returned == pc \in {"Goal", "Exhausted", "TimedOut"}

\* C3 as claimed: with a timeout of 0 every call returns no plan and metrics
\* with nodes_created = 1 and nodes_expanded = 0, also with partial plans and
\* when the initial state is a goal.
C3_AsClaimed ==
  (timeout = 0 /\ Returned) =>
    /\ ~result.has_plan
    /\ metrics.nodes_created = 1
    /\ metrics.nodes_expanded = 0

\* C3, amended: with a timeout of 0 no call pops or expands a node or
\* returns a plan; a call that returns has timed out at the first poll, with
\* nodes_expanded = 0 and nodes_created equal to 1 plus the number of nodes
\* the seeder admitted, which is 1 when the seeder did not run.
C3_TimeoutZero ==
  timeout = 0 =>
    /\ pc \notin {"Goal", "Exhausted", "succ"}
    /\ ~result.has_plan
    /\ popped = << >>
    /\ metrics.nodes_expanded = 0
    /\ Returned =>
         /\ metrics.nodes_created = Len(pushed)
         /\ (~Seeding => metrics.nodes_created = 1)

\* A call with timeout 0 on a task whose initial state is a goal returns
\* after the seeder admitted nodes.
C3_Witness ==
  /\ timeout = 0
  /\ pc = "TimedOut"
  /\ goal_reached(task, task.initial_state)
  /\ Seeding
  /\ metrics.nodes_created = 3

\* ------------------------------------------------------------------------
\* C4: exhaustion
\* ------------------------------------------------------------------------

\* No goal state can be reached from the initial state.
GoalUnreachable == Reachable(task) \cap task.goal = {}

\* C4 as claimed: when no goal is reachable and the search ends exhausted,
\* the expanded states are exactly the reachable ones and each was expanded
\* exactly once.
C4_AsClaimed ==
  pc = "Exhausted" =>
    LET R == Reachable(task)
    IN R \cap task.goal = {} =>
         /\ ~result.has_plan
         /\ ExpandedStates = R
         /\ metrics.nodes_expanded = Cardinality(R)

\* C4, amended: when no goal is reachable and the search ends exhausted, it
\* returns no plan and has expanded only reachable states; if moreover the
\* heuristic is finite on every reachable state and relaxed-plan guidance is
\* off, every reachable state was expanded at least once; and with the plain
\* A* ordering and a consistent heuristic, or with weighted A* of weight 0
\* (the key is g) and any heuristic, each was expanded exactly once, with and
\* without seeding.
C4_Exhaustion ==
  pc = "Exhausted" =>
    LET R == Reachable(task)
    IN R \cap task.goal = {} =>
         /\ ~result.has_plan
         /\ ExpandedStates \subseteq R
         /\ metrics.nodes_expanded >= Cardinality(ExpandedStates)
         /\ ( /\ \A s \in R : heuristic.h[s] < INF
              /\ ~use_relaxed_plan )
            => /\ ExpandedStates = R
               /\ ( \/ /\ make_open_entry.kind = "astar"
                       /\ Consistent(task, heuristic.h)
                    \/ /\ make_open_entry.kind = "weighted"
                       /\ make_open_entry.weight = 0 )
                  => metrics.nodes_expanded = Cardinality(R)

\* An exhausted search over three reachable states with a finite heuristic
\* that expanded some state twice.
C4_Witness ==
  /\ pc = "Exhausted"
  /\ GoalUnreachable
  /\ Cardinality(Reachable(task)) = 3
  /\ \A s \in States : heuristic.h[s] < INF
  /\ ~use_relaxed_plan
  /\ ExpandedStates = Reachable(task)
  /\ metrics.nodes_expanded > 3

\* An exhausted search under the plain A* ordering and a consistent finite
\* heuristic whose seeder had queued two states at a cost above their
\* cheapest: both entries were popped stale and each of the three reachable
\* states was expanded once.
C4_SeededWitness ==
  /\ pc = "Exhausted"
  /\ GoalUnreachable
  /\ Seeding
  /\ make_open_entry.kind = "astar"
  /\ Consistent(task, heuristic.h)
  /\ \A s \in States : heuristic.h[s] < INF
  /\ Cardinality(Reachable(task)) = 3
  /\ metrics.nodes_expanded = 3
  /\ Len(popped) = 5

\* ------------------------------------------------------------------------
\* C5: the concrete scenario
\* ------------------------------------------------------------------------

\* Initial state S0, operators inc (S0 -> S1, cost 1) and jump (S0 -> S2,
\* cost 10), goal S2, h = 0 for S2 and 1 otherwise, plain A*, no seeding.
Scenario ==
  /\ task = [operators |-> SelectOps({1, 2}, 1), goal |-> {2},
             initial_state |-> InitialState]
  /\ heuristic.h = (0 :> 1 @@ 1 :> 1 @@ 2 :> 0)
  /\ make_open_entry.kind = "astar"
  /\ ~use_relaxed_plan
  /\ ~Seeding
  /\ NotDeprecated(partial_plan_guidance_method)

\* The states of the expanded nodes, in the order of their expansion.
RECURSIVE ExpansionOrder(_)
ExpansionOrder(i) ==
  IF i = 0 THEN << >>
  ELSE IF popped[i].live
       THEN Append(ExpansionOrder(i - 1), nodes[popped[i].entry.node].state)
       ELSE ExpansionOrder(i - 1)

\* C5 as claimed: the scenario expands S0, S1, S2 and returns [jump] with cost
\* 10, nodes_expanded = 2 and nodes_created = 3.
C5_AsClaimed ==
  (Scenario /\ pc \in {"Goal", "Exhausted"}) =>
    /\ pc = "Goal"
    /\ result.plan = << "jump" >>
    /\ nodes[pop_node].g = 10
    /\ ExpansionOrder(Len(popped)) = << 0, 1, 2 >>
    /\ metrics.nodes_expanded = 2
    /\ metrics.nodes_created = 3

\* C5, amended: the scenario expands S0, S1, S2 and returns [jump] with cost
\* 10 and nodes_created = 3; the goal node counts as expanded, so
\* nodes_expanded = 3.
C5_Scenario ==
  (Scenario /\ pc \in {"Goal", "Exhausted"}) =>
    /\ pc = "Goal"
    /\ result.plan = << "jump" >>
    /\ nodes[pop_node].g = 10
    /\ ExpansionOrder(Len(popped)) = << 0, 1, 2 >>
    /\ metrics.nodes_expanded = 3
    /\ metrics.nodes_created = 3

\* The scenario has run to its end without the timeout firing.
C5_Witness == Scenario /\ pc = "Goal" /\ timeout = 1

\* ------------------------------------------------------------------------
\* C6: misses of the seeder
\* ------------------------------------------------------------------------

\* C6: under every selector that makes the seeder run, the default
\* "init-queue" included, a missing or inapplicable operator of a partial plan
\* never makes the call raise: the seeder abandons the plan or skips the
\* step.
C6_SeederNeverRaises ==
  (Seeding /\ NotDeprecated(partial_plan_guidance_method)) => pc /= "Raised"

\* ------------------------------------------------------------------------
\* C7: rejection of unrecognized selectors
\* ------------------------------------------------------------------------

\* C7: a call with a selector other than the two recognized modes fails
\* before the heuristic is evaluated, before a node is pushed and before the
\* cost table or the metrics are touched.
C7_RejectedBeforeWork ==
  partial_plan_guidance_method \notin RecognizedMethods =>
    /\ pc \in {"start", "Raised"}
    /\ h_calls = 0
    /\ open = << >>
    /\ pushed = << >>
    /\ state_cost = << >>
    /\ metrics = [nodes_expanded |-> 0, nodes_created |-> 0]

\* ------------------------------------------------------------------------
\* C8: the cost table is the least admitted g
\* ------------------------------------------------------------------------

\* The g values of the nodes pushed so far for state s (the root included).
PushedG(s) == {pushed[i].g : i \in {j \in 1..Len(pushed) : pushed[j].state = s}}

\* C8: at every point of the seeding and of the main loop the cost table
\* holds, for exactly the states pushed so far, the least g among the nodes
\* pushed for the state; and every pushed node had a g strictly smaller than
\* the table value at its admission (INF when the state was absent).
C8_CostTableIsMinimum ==
  pc /= "start" =>
    /\ DOMAIN state_cost = {pushed[i].state : i \in 1..Len(pushed)}
    /\ \A s \in DOMAIN state_cost : state_cost[s] = MinOf(PushedG(s))
    /\ \A i \in 1..Len(pushed) : pushed[i].g < pushed[i].old

\* The main loop has just pushed, at a smaller g, a state the seeder had
\* pushed.
C8_Witness ==
  /\ pc = "succ"
  /\ Seeding
  /\ Len(popped) > 0
  /\ LET last == pushed[Len(pushed)]
     IN /\ nodes[last.entry.node].parent = pop_node
        /\ last.old < INF
        /\ state_cost[last.state] = last.g

\* ------------------------------------------------------------------------
\* C9: stale nodes are not expanded
\* ------------------------------------------------------------------------

\* The entry removed by the step, when the step is a pop.
LastPopped == popped[Len(popped)]

\* C9: a step that pops a node whose state has a cost-table value strictly
\* below the node's g changes nothing but the queue, from which it removes
\* that entry: the node is not counted as expanded, not goal-tested, no
\* successor is generated, and cost table and nodes_created stay.
C9_StaleNotExpanded ==
  [][ ( /\ Len(popped') = Len(popped) + 1
        /\ LET n == nodes[LastPopped'.entry.node]
           IN CostGet(state_cost, n.state) < n.g )
      => /\ metrics' = metrics
         /\ expansions' = expansions
         /\ pc' = "loop"
         /\ result' = result
         /\ nodes' = nodes
         /\ h_calls' = h_calls
         /\ pushed' = pushed
         /\ state_cost' = state_cost
         /\ node_tiebreaker' = node_tiebreaker
         /\ Entries(open') = Entries(open) \ {LastPopped'.entry}
         /\ ~LastPopped'.live ]_vars

\* A stale node has just been popped.
C9_Witness ==
  /\ pc = "loop"
  /\ Len(popped) > 0
  /\ LET n == nodes[LastPopped.entry.node]
     IN CostGet(state_cost, n.state) < n.g

\* ------------------------------------------------------------------------
\* C10: ties are popped in insertion order
\* ------------------------------------------------------------------------

\* The position of the push of entry e in the history of pushes.
PushIndex(e) == CHOOSE i \in 1..Len(pushed) : pushed[i].entry = e

\* C10: under each ordering strategy, of two popped entries with the same
\* priority key and the same h the one inserted first (by the root push, the
\* seeder or the main loop) was popped first.
C10_TiesInInsertionOrder ==
  \A i, j \in 1..Len(popped) :
    ( /\ i < j
      /\ FloatEq(popped[i].entry.f, popped[j].entry.f)
      /\ FloatEq(popped[i].entry.h, popped[j].entry.h) )
    => PushIndex(popped[i].entry) < PushIndex(popped[j].entry)

\* Two entries with equal key and h, one pushed by the seeder and one by the
\* main loop, were in the queue together and have both been popped.
C10_Witness ==
  /\ Seeding
  /\ \E i, j \in 1..Len(popped) :
       /\ i < j
       /\ FloatEq(popped[i].entry.f, popped[j].entry.f)
       /\ FloatEq(popped[i].entry.h, popped[j].entry.h)
       /\ popped[i].entry.tie >= 1
       /\ PushIndex(popped[j].entry) < Len(pushed)
       /\ \E k \in 1..(i - 1) :
            PushIndex(popped[k].entry) < PushIndex(popped[i].entry)
            /\ nodes[popped[j].entry.node].parent = popped[k].entry.node
            /\ nodes[popped[i].entry.node].parent /= popped[k].entry.node

\* ------------------------------------------------------------------------
\* C11: relaxed-plan filtering
\* ------------------------------------------------------------------------

\* The main loop is about to handle the successor succs[succ_i].
AtSuccessor == pc = "succ" /\ succ_i <= Len(succs)

\* The relaxed plan heuristic.calc_h_with_plan yields for the node under
\* expansion.
RelaxedPlanOfPopped == heuristic.calc_h_with_plan[nodes[pop_node].state].rplan

\* The step pushes nothing and leaves cost table, counters and arena alone.
NothingAdmitted ==
  /\ open' = open
  /\ state_cost' = state_cost
  /\ metrics' = metrics
  /\ node_tiebreaker' = node_tiebreaker
  /\ pushed' = pushed

\* C11: when use_relaxed_plan is on and the relaxed plan of the expanded node
\* is a non-empty set of operator names, a successor whose operator is not in
\* the set is skipped (not pushed, not recorded in the cost table, not
\* counted in nodes_created, not even built), and a successor admitted during
\* that expansion came by an operator of the set.
C11_RelaxedPlanFilter ==
  [][ ( /\ AtSuccessor
        /\ use_relaxed_plan
        /\ ~RelaxedPlanOfPopped.none
        /\ RelaxedPlanOfPopped.ops /= {} )
      => /\ succs[succ_i].op.name \notin RelaxedPlanOfPopped.ops
            => /\ NothingAdmitted
               /\ nodes' = nodes
               /\ h_calls' = h_calls
         /\ pushed' /= pushed
            => /\ succs[succ_i].op.name \in RelaxedPlanOfPopped.ops
               /\ nodes'[pushed'[Len(pushed')].entry.node].action
                    \in RelaxedPlanOfPopped.ops ]_vars

\* During one expansion under a non-empty relaxed plan one successor was
\* skipped, its state still unknown to the cost table, and another one was
\* admitted.
C11_Witness ==
  /\ pc = "succ"
  /\ use_relaxed_plan
  /\ Truthy(RelaxedPlanOfPopped)
  /\ \E k \in 1..(succ_i - 1) :
       /\ succs[k].op.name \notin RelaxedPlanOfPopped.ops
       /\ succs[k].state \notin DOMAIN state_cost
  /\ nodes[pushed[Len(pushed)].entry.node].parent = pop_node
  /\ Len(popped) > 0

\* ------------------------------------------------------------------------
\* C12: termination
\* ------------------------------------------------------------------------

\* Every call comes to an end (it returns or raises), also when the timeout
\* never fires.
Termination == <>(pc \in Terminal)

\* C12: a search that was not rejected for its selector ends in exactly one
\* of Goal, Exhausted and TimedOut: once no step of the call is left, it has
\* returned with one of the three outcomes, and its metrics hold both
\* counters.
C12_EndsInOutcome ==
  (NotDeprecated(partial_plan_guidance_method) /\ pc \in Terminal) =>
    /\ pc \in {"Goal", "Exhausted", "TimedOut"}
    /\ DOMAIN metrics = {"nodes_created", "nodes_expanded"}

\* ------------------------------------------------------------------------
\* C13: timeout polling
\* ------------------------------------------------------------------------

\* An iteration of the main loop starts with the timeout reached.
IterationStartsLate ==
  pc = "loop" /\ open /= << >> /\ elapsed >= timeout

\* C13: the timeout is polled at the start of each iteration, before the pop:
\* from an iteration start with elapsed >= timeout the search pops, goal-tests
\* and expands nothing more, whatever is at the head of the queue, and when
\* it moves on it returns no plan with the metrics as they were.
C13_TimeoutPolledBeforePop ==
  [][ IterationStartsLate
      => /\ popped' = popped
         /\ open' = open
         /\ metrics' = metrics
         /\ expansions' = expansions
         /\ state_cost' = state_cost
         /\ nodes' = nodes
         /\ pc' \in {"loop", "TimedOut"}
         /\ pc' = "TimedOut" => result' = NoResult
         /\ pc' = "loop" => elapsed' > elapsed ]_vars

\* The search timed out after at least one iteration while a live goal node
\* was at the head of the queue.
C13_Witness ==
  /\ pc = "TimedOut"
  /\ timeout > 0
  /\ Len(popped) > 0
  /\ open /= << >>
  /\ LET n == nodes[heappop(open).item.node]
     IN /\ goal_reached(task, n.state)
        /\ state_cost[n.state] = n.g
  /\ metrics.nodes_expanded = Cardinality(LivePops)

\* ------------------------------------------------------------------------
\* C14: the replay cursor of the seeder
\* ------------------------------------------------------------------------

\* The seeder is about to handle the name SeedName of the current plan.
AtSeedStep ==
  pc = "seed_op" /\ op_i <= Len(partial_plans.plans[plan_i])

SeedName == partial_plans.plans[plan_i][op_i]

\* The operators of the task called SeedName that are applicable in the
\* state of the replay cursor.
SeedHits ==
  { k \in 1..Len(task.operators) :
      /\ task.operators[k].name = SeedName
      /\ task.operators[k].eff[nodes[node].state] /= NA }

\* C14: a replay step whose operator exists and is applicable builds the
\* successor of the cursor's node (parent link and g derive from the cursor);
\* with a finite h the cursor moves to that successor whether or not it was
\* admitted and the replay goes on with the next name; with an infinite h
\* nothing is pushed and the replay of this sequence stops. Each further
\* sequence is replayed from the root.
C14_ReplayCursor ==
  [][ /\ (AtSeedStep /\ SeedHits /= {})
         => \E k \in SeedHits :
              LET op == task.operators[k]
                  new == nodes'[Len(nodes')]
              IN /\ Len(nodes') = Len(nodes) + 1
                 /\ new.parent = node
                 /\ new.state = op.eff[nodes[node].state]
                 /\ new.g = nodes[node].g + op.cost
                 /\ heuristic.h[new.state] < INF
                    => /\ node' = Len(nodes')
                       /\ pc' = "seed_op"
                       /\ plan_i' = plan_i
                       /\ op_i' = op_i + 1
                 /\ heuristic.h[new.state] = INF
                    => /\ NothingAdmitted
                       /\ pc' = "seed_plan"
                       /\ plan_i' = plan_i + 1
      /\ (pc = "seed_plan" /\ plan_i <= Len(partial_plans.plans))
         => /\ pc' = "seed_op"
            /\ node' = 1
            /\ op_i' = 1
            /\ plan_i' = plan_i ]_vars

\* The entries of the queue history that the seeder pushed.
PushedNodes == {pushed[i].entry.node : i \in 1..Len(pushed)}

\* The seeder admitted a node whose parent is a node it had built but not
\* admitted, in the second sequence, after the first one had stopped.
C14_Witness ==
  /\ pc = "seed_op"
  /\ plan_i = 2
  /\ node \in PushedNodes
  /\ node > 1
  /\ nodes[node].parent > 1
  /\ nodes[node].parent \notin PushedNodes
  /\ nodes[nodes[node].parent].parent = 1

\* ------------------------------------------------------------------------
\* C15: the two recovery policies of the seeder
\* ------------------------------------------------------------------------

\* The name at the replay position is unknown to the task or names an
\* operator that is not applicable in the state of the replay cursor.
SeedMiss == AtSeedStep /\ SeedHits = {}

\* C15: on an unknown or inapplicable name the skip mode keeps the replay
\* cursor and goes on with the next name of the same sequence, the abandon
\* mode leaves the sequence for good (the sequence index only grows, so none
\* of its remaining names is applied); in both modes the frontier and the
\* cost table keep what was admitted earlier, on that step and during the
\* whole replay.
C15_RecoveryPolicies ==
  [][ /\ (SeedMiss /\ partial_plan_guidance_method = "init-queue-continue")
         => /\ node' = node
            /\ op_i' = op_i + 1
            /\ plan_i' = plan_i
            /\ pc' = "seed_op"
            /\ NothingAdmitted
            /\ nodes' = nodes
      /\ (SeedMiss /\ partial_plan_guidance_method = "init-queue-break")
         => /\ plan_i' = plan_i + 1
            /\ pc' = "seed_plan"
            /\ NothingAdmitted
            /\ nodes' = nodes
      /\ pc \in {"seed_plan", "seed_op"}
         => /\ plan_i' >= plan_i
            /\ Entries(open) \subseteq Entries(open')
            /\ \A s \in DOMAIN state_cost :
                 s \in DOMAIN state_cost' /\ state_cost'[s] <= state_cost[s] ]_vars

\* The skip mode went past the unknown first name of a sequence and admitted
\* the successor of its second name from the unmoved cursor, the root.
C15_Witness ==
  /\ pc = "seed_op"
  /\ partial_plan_guidance_method = "init-queue-continue"
  /\ plan_i = 1
  /\ op_i = 3
  /\ OpMap(task.operators, partial_plans.plans[1][1]) = 0
  /\ node > 1
  /\ node \in PushedNodes
  /\ nodes[node].parent = 1
  /\ Len(open) = 2

\* The abandon mode left a sequence at its unknown first name: its second
\* name, applicable at the root, was never applied, and the frontier holds
\* the root alone.
C15_AbandonWitness ==
  /\ pc = "seed_plan"
  /\ partial_plan_guidance_method = "init-queue-break"
  /\ plan_i = 2
  /\ OpMap(task.operators, partial_plans.plans[1][1]) = 0
  /\ LET k == OpMap(task.operators, partial_plans.plans[1][2])
     IN k /= 0 /\ applicable(task.operators[k], InitialState)
  /\ Len(pushed) = 1
  /\ Len(nodes) = 1

\* ------------------------------------------------------------------------
\* C16: dead-end successors in the main loop
\* ------------------------------------------------------------------------

\* C16: a successor of the expanded node whose heuristic value is infinite
\* is discarded: the frontier, the cost table, the tiebreaker and
\* nodes_created are what they were, and the loop goes on with the next
\* successor.
C16_DeadEndDiscarded ==
  [][ (AtSuccessor /\ heuristic.h[succs[succ_i].state] = INF)
      => /\ NothingAdmitted
         /\ pc' = "succ"
         /\ succ_i' = succ_i + 1 ]_vars

\* The main loop went past an unfiltered successor with an infinite heuristic
\* value whose state has no cost-table entry, so the admission test alone
\* would have let it in, and after it admitted a sibling.
C16_Witness ==
  /\ pc = "succ"
  /\ ~use_relaxed_plan
  /\ \E k \in 1..(succ_i - 1) :
       /\ heuristic.h[succs[k].state] = INF
       /\ succs[k].state \notin DOMAIN state_cost
       /\ \E j \in (k + 1)..(succ_i - 1) :
            /\ succs[j].state \in DOMAIN state_cost
            /\ \E i \in 1..Len(pushed) :
                 /\ pushed[i].state = succs[j].state
                 /\ nodes[pushed[i].entry.node].parent = pop_node

\* ------------------------------------------------------------------------
\* C17: relaxed-plan guidance without a usable relaxed plan
\* ------------------------------------------------------------------------

\* The relaxed computation for state s yields infinity.
YieldsInfinity(s) == heuristic.calc_h_with_plan[s].rh = INF

\* The relaxed computation for state s yields an absent or an empty set of
\* operator names.
NoUsablePlan(s) ==
  LET rp == heuristic.calc_h_with_plan[s].rplan
  IN rp.none \/ rp.ops = {}

\* The operators of the task that are applicable in state s.
ApplicableIn(s) ==
  { k \in 1..Len(task.operators) : task.operators[k].eff[s] /= NA }

\* A step of the loop head that pops a live entry, and the state it pops.
LivePopStep == pc = "loop" /\ popped' /= popped /\ popped'[Len(popped')].live
PoppedState == nodes[popped'[Len(popped')].entry.node].state

\* The popped node is not pruned: it is counted as expanded and goal-tested,
\* and a non-goal node gets all its successors.
NodeNotPruned ==
  LET s == PoppedState
  IN /\ metrics'.nodes_expanded = metrics.nodes_expanded + 1
     /\ goal_reached(task, s) => pc' = "Goal" /\ result'.has_plan
     /\ ~goal_reached(task, s)
        => /\ pc' = "succ"
           /\ succ_i' = 1
           /\ {succs'[i].op.name : i \in 1..Len(succs')}
                = {task.operators[k].name : k \in ApplicableIn(s)}

\* The successor at hand is not filtered: its node is built, its heuristic
\* value is computed, and it is admitted exactly when that value is finite
\* and its g is below the recorded cost.
SuccessorUnfiltered ==
  LET s == succs[succ_i].state
      g == nodes[pop_node].g + succs[succ_i].op.cost
  IN /\ Len(nodes') = Len(nodes) + 1
     /\ nodes'[Len(nodes')].parent = pop_node
     /\ nodes'[Len(nodes')].state = s
     /\ h_calls' = h_calls + 1
     /\ IF heuristic.h[s] < INF /\ (s \in DOMAIN state_cost => g < state_cost[s])
        THEN /\ pushed' = Append(pushed, pushed'[Len(pushed')])
             /\ pushed'[Len(pushed')].entry.node = Len(nodes')
             /\ pushed'[Len(pushed')].entry \in Entries(open')
             /\ state_cost'[s] = g
        ELSE NothingAdmitted

\* C17 as claimed: with guidance enabled, when the relaxed computation for
\* the expanded node yields infinity or an absent or empty set of names, the
\* node is not pruned and none of its successors is filtered.
C17_AsClaimed ==
  [][ /\ ( /\ LivePopStep /\ use_relaxed_plan
           /\ (YieldsInfinity(PoppedState) \/ NoUsablePlan(PoppedState)) )
         => NodeNotPruned
      /\ ( /\ AtSuccessor /\ use_relaxed_plan
           /\ \/ YieldsInfinity(nodes[pop_node].state)
              \/ NoUsablePlan(nodes[pop_node].state) )
         => SuccessorUnfiltered ]_vars

\* C17, amended: with guidance enabled the expanded node is never pruned,
\* whatever the relaxed computation yields, infinity included; when it yields
\* an absent or empty set of names, with whatever value, none of the
\* successors is filtered; when it yields a non-empty set, the value being
\* infinite changes nothing: the successors outside the set are skipped.
C17_NoPlanNoFilter ==
  [][ /\ (LivePopStep /\ use_relaxed_plan) => NodeNotPruned
      /\ (AtSuccessor /\ use_relaxed_plan /\ NoUsablePlan(nodes[pop_node].state))
         => SuccessorUnfiltered
      /\ ( /\ AtSuccessor /\ use_relaxed_plan
           /\ YieldsInfinity(nodes[pop_node].state)
           /\ ~NoUsablePlan(nodes[pop_node].state) )
         => IF succs[succ_i].op.name \in RelaxedPlanOfPopped.ops
            THEN SuccessorUnfiltered
            ELSE NothingAdmitted /\ nodes' = nodes /\ h_calls' = h_calls ]_vars

\* The nodes built as children of the popped node.
ChildrenOfPopped == {i \in 1..Len(nodes) : i > 1 /\ nodes[i].parent = pop_node}

\* Guidance is enabled and the relaxed computation for the expanded state
\* yielded infinity and no plan: the node was expanded, both of its
\* successors were built and one of them at least was admitted.
C17_Witness ==
  /\ pc = "succ"
  /\ use_relaxed_plan
  /\ rh = INF
  /\ rplan.none
  /\ Len(succs) >= 2
  /\ succ_i > Len(succs)
  /\ Cardinality(ChildrenOfPopped) = Len(succs)
  /\ ChildrenOfPopped \cap PushedNodes /= {}
  /\ popped[Len(popped)].live

\* The same with an empty relaxed plan.
C17_EmptyWitness ==
  /\ pc = "succ"
  /\ use_relaxed_plan
  /\ ~rplan.none /\ rplan.ops = {}
  /\ Len(succs) >= 2
  /\ succ_i > Len(succs)
  /\ Cardinality(ChildrenOfPopped) = Len(succs)
  /\ ChildrenOfPopped \cap PushedNodes /= {}

\* The relaxed computation yielded infinity with a non-empty set of names:
\* of the two successors of the expanded node the one outside the set was
\* skipped although its state has no recorded cost.
C17_InfinityFiltered ==
  /\ pc = "succ"
  /\ use_relaxed_plan
  /\ rh = INF
  /\ Truthy(rplan)
  /\ Len(succs) = 2
  /\ succ_i > Len(succs)
  /\ Cardinality(ChildrenOfPopped) = 1
  /\ \E k \in 1..Len(succs) :
       /\ succs[k].op.name \notin rplan.ops
       /\ succs[k].state \notin DOMAIN state_cost

\* ------------------------------------------------------------------------
\* C18: metrics accounting
\* ------------------------------------------------------------------------

\* The counters agree with the tiebreaker and with the history of the queue.
MetricsAccount ==
  /\ metrics.nodes_created = node_tiebreaker + 1
  /\ metrics.nodes_created = Len(pushed)
  /\ metrics.nodes_expanded = Cardinality(LivePops)
  /\ metrics.nodes_expanded <= metrics.nodes_created

\* C18: from the set-up of the search on, after every step nodes_created is
\* the tiebreaker plus one and the number of entries ever pushed, the root
\* included, nodes_expanded is the number of live entries popped and is at
\* most nodes_created, and no step decreases a counter.
C18_MetricsAccounting ==
  [][ /\ pc' /= "start" => MetricsAccount'
      /\ pc /= "start"
         => /\ metrics'.nodes_created >= metrics.nodes_created
            /\ metrics'.nodes_expanded >= metrics.nodes_expanded ]_vars

\* A search that pushed beyond the root, from the seeder and from the main
\* loop, expanded twice and popped a stale entry.
C18_Witness ==
  /\ pc = "loop"
  /\ metrics.nodes_created >= 4
  /\ metrics.nodes_expanded >= 2
  /\ metrics.nodes_expanded < Len(popped)
  /\ partial_plans.given
  /\ \E i \in 1..Len(pushed) : pushed[i].entry.node > 1
                                /\ nodes[pushed[i].entry.node].parent > 1

\* ------------------------------------------------------------------------
\* C19: the frontier and the cost table
\* ------------------------------------------------------------------------

\* The state and the g of the node of a queue entry.
EntryState(e) == nodes[e.node].state
EntryG(e) == nodes[e.node].g

\* C19: every entry of the frontier has its state in the cost table with a
\* recorded cost that is at most the g of the entry; so the lookup on pop
\* never raises KeyError, and for every entry that may be popped the test of
\* the code (recorded cost equal to g) agrees with the test "the recorded cost
\* is not strictly below g"; an entry that was popped without being expanded
\* has a g strictly above the recorded cost.
C19_FrontierInCostTable ==
  /\ \A e \in Entries(open) :
       /\ EntryState(e) \in DOMAIN state_cost
       /\ state_cost[EntryState(e)] <= EntryG(e)
       /\ IsLive(state_cost[EntryState(e)], EntryG(e))
            <=> ~(state_cost[EntryState(e)] < EntryG(e))
  /\ result.error /= "KeyError"
  /\ \A i \in 1..Len(popped) :
       popped[i].live \/ CostGet(state_cost, EntryState(popped[i].entry))
                           < EntryG(popped[i].entry)

\* The frontier holds two entries of one state, a stale one above the
\* recorded cost and the live one at the recorded cost.
C19_Witness ==
  /\ pc = "loop"
  /\ \E e1 \in Entries(open) : \E e2 \in Entries(open) :
       /\ EntryState(e1) = EntryState(e2)
       /\ state_cost[EntryState(e1)] < EntryG(e1)
       /\ state_cost[EntryState(e2)] = EntryG(e2)

\* ------------------------------------------------------------------------
\* C20: a single live entry per state
\* ------------------------------------------------------------------------

\* The frontier entries of state s whose g is the recorded cost of s.
LiveEntries(s) ==
  {e \in Entries(open) : EntryState(e) = s /\ CostGet(state_cost, s) = EntryG(e)}

\* C20: the admissions of one state carry strictly decreasing g; the
\* frontier never holds two live entries of one state; two expansions of one
\* state have strictly decreasing g, so no pair (state, g) is expanded twice.
C20_SingleLiveEntry ==
  /\ \A i \in 1..Len(pushed) : \A j \in (i + 1)..Len(pushed) :
       pushed[i].state = pushed[j].state => pushed[j].g < pushed[i].g
  /\ \A s \in States : Cardinality(LiveEntries(s)) <= 1
  /\ \A i \in LivePops : \A j \in LivePops :
       (i < j /\ EntryState(popped[i].entry) = EntryState(popped[j].entry))
         => EntryG(popped[j].entry) < EntryG(popped[i].entry)

\* A state was expanded, admitted again at a smaller g, and expanded again.
C20_Witness ==
  \E i \in LivePops : \E j \in LivePops :
    /\ i < j
    /\ EntryState(popped[i].entry) = EntryState(popped[j].entry)
    /\ EntryG(popped[j].entry) < EntryG(popped[i].entry)

====
